---- MODULE Spec2Model ----
(***************************************************************************)
(* MoveGroupKinematicsService (kinematics_service_capability.cpp): the IK  *)
(* and FK service handlers, the planning scene they read under a shared    *)
(* lock, and a planning-scene writer running beside them.                  *)
(***************************************************************************)
EXTENDS Integers, Sequences, FiniteSets, TLC

\* ------------------------------------------------------------------ bounds
MaxCfg == 1
MaxPoses == 2
MaxLinks == 2
MaxIter == 2

\* ------------------------------------------------------------- vocabulary
Procs == {1, 2}
Cfgs == 0..MaxCfg

SUCCESS == "SUCCESS"
INVALID_GROUP_NAME == "INVALID_GROUP_NAME"
INVALID_LINK_NAME == "INVALID_LINK_NAME"
NO_IK_SOLUTION == "NO_IK_SOLUTION"
FRAME_TRANSFORM_FAILURE == "FRAME_TRANSFORM_FAILURE"
UNSET == "UNSET"
ErrorCodes == {SUCCESS, INVALID_GROUP_NAME, INVALID_LINK_NAME, NO_IK_SOLUTION,
               FRAME_TRANSFORM_FAILURE}

\* The robot model: its joint groups, its links, its model frame.
ModelGroups == {"arm"}
ModelLinks == {"gripper", "wrist", "elbow", "forearm"}
ModelFrame == "base"
\* Frames the transform capability can resolve to or from the model frame.
KnownFrames == {"base", "camera"}

VARIABLES world, writer, readers, pc, req, rs, kset, res, tfUpdated, locks,
          tfLog, solver, fk, tfClient

\* moveit::tools::Profiler: its mutex, its members, the clock it reads, the
\* threads calling it and what status() last reported.
VARIABLES lock_, running_, tinfo_, data_, now, prof, report, submitted

kinVars == <<world, writer, readers, pc, req, rs, kset, res, tfUpdated, locks,
             tfLog, solver, fk, tfClient>>

profVars == <<lock_, running_, tinfo_, data_, now, prof, report, submitted>>

vars == <<kinVars, profVars>>

\* ------------------------------------------------------------ the requests
GroupNames == {"arm", "bogus"}
PoseFrames == {"base", "unknown"}
Pose(f) == [frame_id |-> f]
AllLinkNames == <<"gripper", "wrist", "elbow", "forearm">>
\* A Constraints message: a list of constraints, each of which the constraint
\* set can configure ("avoid0": joint value 0 is forbidden) or not.
ConstraintMsgs == {<<>>, <<"unusable">>, <<"avoid0">>}
Timeouts == {[sec |-> 0, nanosec |-> 100000000], [sec |-> 1, nanosec |-> 0]}

SeqsUpTo(S, n) == UNION {[1..k -> S] : k \in 0..n}

NoRequest == [kind |-> "none"]

IKRequests ==
  [kind : {"ik"},
   group_name : GroupNames,
   robot_state : {<<>>, <<MaxCfg>>},
   pose_stamped : {Pose(f) : f \in PoseFrames},
   pose_stamped_vector : SeqsUpTo({Pose(f) : f \in PoseFrames}, MaxPoses),
   ik_link_name : {"", "wrist"},
   ik_link_names : {SubSeq(AllLinkNames, 1, n) : n \in 0..MaxLinks},
   avoid_collisions : BOOLEAN,
   constraints : ConstraintMsgs,
   timeout : Timeouts]

FKLinkNames == {"gripper", "bogus_link"}
FKFrames == {"", "base", "camera", "unknown"}

FKRequests ==
  [kind : {"fk"},
   fk_link_names : SeqsUpTo(FKLinkNames, MaxLinks),
   frame_id : FKFrames,
   robot_state : {<<>>, <<MaxCfg>>}]

\* The requests with the default shape: one scalar pose in the model frame.
PlainIKRequests ==
  {r \in IKRequests :
     /\ r.group_name = "arm"
     /\ r.pose_stamped = Pose("base")
     /\ r.pose_stamped_vector = <<>>
     /\ r.ik_link_name = ""
     /\ r.ik_link_names = <<>>
     /\ r.constraints # <<"unusable">>
     /\ r.timeout.sec = 1}

PlainFKRequests ==
  {r \in FKRequests :
     /\ r.fk_link_names = <<"gripper">>
     /\ r.frame_id \in {"", "camera"}}

\* --------------------------------------------------- the planning scene lock
\* planning_scene_monitor::LockedPlanningSceneRO: a shared (read) lock.
CanLockRead == ~writer
CanLockWrite == ~writer /\ readers = {}

\* planning_scene::PlanningScene::isStateColliding
isStateColliding(w, cfg) == cfg = w.obstacle

\* ------------------------------------------------------------- the writer
WriterLock ==
  /\ CanLockWrite
  /\ writer' = TRUE
  /\ UNCHANGED <<world, readers, pc, req, rs, kset, res, tfUpdated, locks, tfLog, solver, fk, tfClient, profVars>>

WriterUpdate ==
  /\ writer
  /\ \E c \in Cfgs, o \in Cfgs :
       /\ [current |-> c, obstacle |-> o] # world
       /\ world' = [current |-> c, obstacle |-> o]
  /\ UNCHANGED <<writer, readers, pc, req, rs, kset, res, tfUpdated, locks, tfLog, solver, fk, tfClient, profVars>>

WriterUnlock ==
  /\ writer
  /\ writer' = FALSE
  /\ UNCHANGED <<world, readers, pc, req, rs, kset, res, tfUpdated, locks, tfLog, solver, fk, tfClient, profVars>>

\* ------------------------------------------------------- helper capabilities
\* moveit::core::isEmpty on a RobotState / Constraints message
isEmpty(msg) == msg = <<>>

\* moveit::core::robotStateMsgToRobotState: the message's joint values are
\* written over the state; an empty message leaves it as it is.
robotStateMsgToRobotState(msg, state) == IF isEmpty(msg) THEN state ELSE msg

\* KinematicConstraintSet::add followed by empty(): constraints that cannot
\* be configured are dropped, so a non-empty message may build an empty set.
KsetAdd(msg) == SelectSeq(msg, LAMBDA c : c = "avoid0")

\* KinematicConstraintSet::decide(state).satisfied
Decide(ks, cfg) == \A k \in 1..Len(ks) : ks[k] = "avoid0" => cfg # 0

\* MoveGroupCapability::performTransform: a pose whose frame is empty or is
\* the target frame needs no lookup; otherwise the lookup succeeds only
\* between frames the transform capability knows.
performTransform(pose, target) ==
  \/ pose.frame_id = ""
  \/ pose.frame_id = target
  \/ (pose.frame_id \in KnownFrames /\ target \in KnownFrames)

\* ------------------------------------------------------ validity predicate
\* Variant: the constraint test is evaluated before the collision test.
isIKSolutionValid_ConstraintFirst(scene, ks, w, cand) ==
  LET collOk == ~scene.present \/ ~isStateColliding(w, cand)
      consOk == ~ks.present \/ Decide(ks.set, cand)
  IN  [state |-> <<cand>>,
       tests |-> (IF ks.present THEN <<"constraint">> ELSE <<>>)
                 \o (IF consOk /\ scene.present THEN <<"collision">> ELSE <<>>),
       valid |-> collOk /\ consOk]

\* Variant: the collision test is left out of the predicate.
isIKSolutionValid_NoCollision(scene, ks, w, cand) ==
  LET consOk == ~ks.present \/ Decide(ks.set, cand)
  IN  [state |-> <<cand>>,
       tests |-> IF ks.present THEN <<"constraint">> ELSE <<>>,
       valid |-> consOk]

\* isIKSolutionValid: the candidate is written into the state, then the
\* collision test and the constraint test are evaluated left to right with
\* short-circuit.  scene / ks say whether the pointer handed in is non-null.
\* The result records the new state, the tests evaluated and the verdict.
isIKSolutionValid(scene, ks, w, cand) ==
  LET collOk == ~scene.present \/ ~isStateColliding(w, cand)
      consOk == ~ks.present \/ Decide(ks.set, cand)
  IN  [state |-> <<cand>>,
       tests |-> (IF scene.present THEN <<"collision">> ELSE <<>>)
                 \o (IF collOk /\ ks.present THEN <<"constraint">> ELSE <<>>),
       valid |-> collOk /\ consOk]

\* Variant: only collision avoidance keeps the scene locked.
NeedsLockedScene_AvoidOnly(r) == r.avoid_collisions

\* computeIKService line 168: must the scene stay locked during computeIK?
NeedsLockedScene(r) == r.avoid_collisions \/ ~isEmpty(r.constraints)

\* computeIKService lines 175-180: the callback bound for the locked path.
BoundCallback(r, ks) ==
  [bound |-> TRUE,
   scene |-> [present |-> r.avoid_collisions],
   ks    |-> [present |-> ks # <<>>, set |-> ks]]

\* computeIKService line 187: computeIK's default (empty) callback.
NoCallback ==
  [bound |-> FALSE,
   scene |-> [present |-> FALSE],
   ks    |-> [present |-> FALSE, set |-> <<>>]]

\* ---------------------------------------------------------------- computeIK
\* Variant: the joint model group is used without the null check.
GroupOk_NoCheck(r) == TRUE

\* line 88
GroupOk(r) == r.group_name \in ModelGroups
\* Variant: only the empty pose list takes the single-pose path.
SinglePosePath_EmptyOnly(r) == Len(r.pose_stamped_vector) = 0
\* line 97
SinglePosePath(r) == Len(r.pose_stamped_vector) = 0 \/ Len(r.pose_stamped_vector) = 1
\* lines 99-100: which pose is the target; 0 names the scalar pose_stamped
ReqPoseIndex(r) == IF Len(r.pose_stamped_vector) = 0 THEN 0 ELSE 1
ReqPose(r) == IF Len(r.pose_stamped_vector) = 0 THEN r.pose_stamped
              ELSE r.pose_stamped_vector[1]
\* lines 101-103
IkLink(r) ==
  IF Len(r.pose_stamped_vector) # 0
  THEN (IF Len(r.ik_link_names) = 0 THEN "" ELSE r.ik_link_names[1])
  ELSE r.ik_link_name
\* Variant: the count check is left out.
CountMismatch_Never(r) == FALSE
\* Variant: only a surplus of link names is caught.
CountMismatch_TooFewPoses(r) == Len(r.pose_stamped_vector) < Len(r.ik_link_names)

\* line 126
CountMismatch(r) == Len(r.pose_stamped_vector) # Len(r.ik_link_names)

\* Variant: the loop goes on after a failed transform (no break).
RECURSIVE TransformLoop_NoBreak(_, _)
TransformLoop_NoBreak(r, k) ==
  IF k > Len(r.pose_stamped_vector) THEN [log |-> <<>>, ok |-> TRUE]
  ELSE LET rest == TransformLoop_NoBreak(r, k + 1)
       IN  [log |-> <<k>> \o rest.log,
            ok |-> rest.ok /\ performTransform(r.pose_stamped_vector[k], ModelFrame)]

\* lines 130-143: the poses are transformed in index order until one fails.
\* log lists the indices handed to performTransform, ok is the loop's flag.
RECURSIVE TransformLoop(_, _)
TransformLoop(r, k) ==
  IF k > Len(r.pose_stamped_vector) THEN [log |-> <<>>, ok |-> TRUE]
  ELSE IF performTransform(r.pose_stamped_vector[k], ModelFrame)
       THEN LET rest == TransformLoop(r, k + 1)
            IN  [log |-> <<k>> \o rest.log, ok |-> rest.ok]
       ELSE [log |-> <<k>>, ok |-> FALSE]

\* lines 109, 111, 146: the time budget handed to setFromIK, in nanoseconds.
\* The double argument is initialised from the integer field timeout.sec.
SolverTimeout(r) == r.timeout.sec * 1000000000

\* Variant: a failed solve is reported with the transform branch's code.
IKErrorCode_WrongFailure(result_ik) ==
  IF result_ik THEN SUCCESS ELSE FRAME_TRANSFORM_FAILURE

\* lines 113-119 and 146-152
IKErrorCode(result_ik) == IF result_ik THEN SUCCESS ELSE NO_IK_SOLUTION

\* setFromIK's bookkeeping: calls made, arguments of the call, callback bound,
\* iterations, scene states read by the callback, its last verdict, result.
NoSolver == [calls |-> 0, args |-> <<>>, callback |-> NoCallback, iters |-> 0,
             seen |-> {}, last |-> <<>>, result |-> "none"]

NoFK == [i |-> 0, do_transform |-> FALSE, tf_problem |-> FALSE]
NoResponse == [error_code |-> UNSET, solution |-> <<>>,
               pose_stamped |-> <<>>, fk_link_names |-> <<>>]

\* ------------------------------------------------------- computeIKService
\* line 165: updateFrameTransforms, then the branch of line 168 is entered.
IK_Begin(p) ==
  /\ pc[p] = "idle"
  /\ req[p].kind = "ik"
  /\ tfUpdated' = [tfUpdated EXCEPT ![p] = TRUE]
  /\ pc' = [pc EXCEPT ![p] = "ik_lock"]
  /\ UNCHANGED <<world, writer, readers, req, rs, kset, res, locks, tfLog, solver, fk, tfClient, profVars>>

\* Variant: the scene is locked for writing (LockedPlanningSceneRW), which
\* excludes readers as well.
IK_Lock_Exclusive(p) ==
  /\ pc[p] = "ik_lock"
  /\ CanLockWrite
  /\ writer' = TRUE
  /\ readers' = readers \cup {p}
  /\ locks' = [locks EXCEPT ![p] = @ + 1]
  /\ rs' = [rs EXCEPT ![p] = <<world.current>>]
  /\ IF NeedsLockedScene(req[p])
     THEN /\ kset' = [kset EXCEPT ![p] = KsetAdd(req[p].constraints)]
          /\ solver' = [solver EXCEPT ![p].callback =
                           BoundCallback(req[p], KsetAdd(req[p].constraints))]
          /\ pc' = [pc EXCEPT ![p] = "ik_compute"]
     ELSE /\ UNCHANGED <<kset, solver>>
          /\ pc' = [pc EXCEPT ![p] = "ik_snapshot"]
  /\ UNCHANGED <<world, req, res, tfUpdated, tfLog, fk, tfClient, profVars>>

\* lines 170-173 (locked path) or line 186 up to getCurrentState (snapshot
\* path): the read lock is taken and the current state copied under it.
IK_Lock(p) ==
  /\ pc[p] = "ik_lock"
  /\ CanLockRead
  /\ readers' = readers \cup {p}
  /\ locks' = [locks EXCEPT ![p] = @ + 1]
  /\ rs' = [rs EXCEPT ![p] = <<world.current>>]
  /\ IF NeedsLockedScene(req[p])
     THEN /\ kset' = [kset EXCEPT ![p] = KsetAdd(req[p].constraints)]
          /\ solver' = [solver EXCEPT ![p].callback =
                           BoundCallback(req[p], KsetAdd(req[p].constraints))]
          /\ pc' = [pc EXCEPT ![p] = "ik_compute"]
     ELSE /\ UNCHANGED <<kset, solver>>
          /\ pc' = [pc EXCEPT ![p] = "ik_snapshot"]
  /\ UNCHANGED <<world, writer, req, res, tfUpdated, tfLog, fk, tfClient, profVars>>

\* Variant: the lock object is a named local and lives on into computeIK.
IK_SnapshotKeep(p) ==
  /\ pc[p] = "ik_snapshot"
  /\ pc' = [pc EXCEPT ![p] = "ik_compute"]
  /\ UNCHANGED <<world, writer, readers, req, rs, kset, res, tfUpdated, locks, tfLog, solver, fk, tfClient, profVars>>

\* line 186, end of the full expression: the temporary lock object dies.
IK_SnapshotRelease(p) ==
  /\ pc[p] = "ik_snapshot"
  /\ readers' = readers \ {p}
  /\ pc' = [pc EXCEPT ![p] = "ik_compute"]
  /\ UNCHANGED <<world, writer, req, rs, kset, res, tfUpdated, locks, tfLog, solver, fk, tfClient, profVars>>

\* computeIK up to the call of setFromIK (lines 88-111, 124-146): either an
\* error code is decided or the solver is entered.
ComputeIK(p) ==
  LET r == req[p]
      merged == robotStateMsgToRobotState(r.robot_state, rs[p])
      loop == TransformLoop(r, 1)
      fail(code, state, log) ==
        /\ res' = [res EXCEPT ![p].error_code = code]
        /\ rs' = [rs EXCEPT ![p] = state]
        /\ tfLog' = [tfLog EXCEPT ![p] = log]
        /\ pc' = [pc EXCEPT ![p] = "ik_return"]
        /\ UNCHANGED solver
      solve(args, log) ==
        /\ solver' = [solver EXCEPT ![p].calls = @ + 1, ![p].args = <<args>>]
        /\ rs' = [rs EXCEPT ![p] = merged]
        /\ tfLog' = [tfLog EXCEPT ![p] = log]
        /\ pc' = [pc EXCEPT ![p] = "ik_solve"]
        /\ UNCHANGED res
  IN
  /\ pc[p] = "ik_compute"
  /\ IF ~GroupOk(r) THEN fail(INVALID_GROUP_NAME, rs[p], <<>>)
     ELSE IF SinglePosePath(r)
     THEN IF performTransform(ReqPose(r), ModelFrame)
          THEN solve([kind |-> "single", target |-> <<ReqPoseIndex(r)>>,
                      links |-> IF IkLink(r) = "" THEN <<>> ELSE <<IkLink(r)>>,
                      timeout |-> SolverTimeout(r)],
                     <<ReqPoseIndex(r)>>)
          ELSE fail(FRAME_TRANSFORM_FAILURE, merged, <<ReqPoseIndex(r)>>)
     ELSE IF CountMismatch(r) THEN fail(INVALID_LINK_NAME, merged, <<>>)
     ELSE IF loop.ok
          THEN solve([kind |-> "multi", target |-> loop.log,
                      links |-> r.ik_link_names,
                      timeout |-> SolverTimeout(r)],
                     loop.log)
          ELSE fail(FRAME_TRANSFORM_FAILURE, merged, loop.log)
  /\ UNCHANGED <<world, writer, readers, req, kset, tfUpdated, locks, fk, tfClient, profVars>>

\* RobotState::setFromIK, one iteration: the solver proposes a candidate and
\* hands it to the callback, when one is bound; a candidate the callback
\* accepts (or any candidate, without callback) is the solution.
SolverIterate(p) ==
  /\ pc[p] = "ik_solve"
  /\ solver[p].iters < MaxIter
  /\ \E cand \in Cfgs :
       LET cb == solver[p].callback
           ev == isIKSolutionValid(cb.scene, cb.ks, world, cand)
       IN  /\ rs' = [rs EXCEPT ![p] = ev.state]
           /\ IF cb.bound
              THEN solver' = [solver EXCEPT
                     ![p].iters = @ + 1,
                     ![p].seen = @ \cup {world},
                     ![p].last = <<ev>>,
                     ![p].result = IF ev.valid THEN "found" ELSE "none"]
              ELSE solver' = [solver EXCEPT ![p].iters = @ + 1, ![p].result = "found"]
           /\ pc' = [pc EXCEPT ![p] =
                       IF cb.bound /\ ~ev.valid THEN "ik_solve" ELSE "ik_solved"]
  /\ UNCHANGED <<world, writer, readers, req, kset, res, tfUpdated, locks, tfLog, fk, tfClient, profVars>>

\* RobotState::setFromIK gives up: timeout, unreachable target, or no valid
\* candidate found.
SolverGiveUp(p) ==
  /\ pc[p] = "ik_solve"
  /\ solver' = [solver EXCEPT ![p].result = "failed"]
  /\ pc' = [pc EXCEPT ![p] = "ik_solved"]
  /\ UNCHANGED <<world, writer, readers, req, rs, kset, res, tfUpdated, locks, tfLog, fk, tfClient, profVars>>

\* computeIK lines 113-119 / 146-152: the solver's result becomes the response.
ComputeIKResult(p) ==
  /\ pc[p] = "ik_solved"
  /\ res' = [res EXCEPT
        ![p].error_code = IKErrorCode(solver[p].result = "found"),
        ![p].solution = IF solver[p].result = "found" THEN rs[p] ELSE @]
  /\ pc' = [pc EXCEPT ![p] = "ik_return"]
  /\ UNCHANGED <<world, writer, readers, req, rs, kset, tfUpdated, locks, tfLog, solver, fk, tfClient, profVars>>

\* Variant: the handler returns with the lock object still alive.
IK_Return_KeepLock(p) ==
  /\ pc[p] = "ik_return"
  /\ pc' = [pc EXCEPT ![p] = "done"]
  /\ UNCHANGED <<world, writer, readers, req, rs, kset, res, tfUpdated, locks, tfLog, solver, fk, tfClient, profVars>>

\* lines 181 / 188-190: the scope of the lock (if any is still held) ends and
\* the handler returns.
IK_Return(p) ==
  /\ pc[p] = "ik_return"
  /\ readers' = readers \ {p}
  /\ pc' = [pc EXCEPT ![p] = "done"]
  /\ UNCHANGED <<world, writer, req, rs, kset, res, tfUpdated, locks, tfLog, solver, fk, tfClient, profVars>>

\* ------------------------------------------------------- computeFKService
\* Transforms::sameFrame
sameFrame(a, b) == a = b

\* lines 207-209
DoTransform(r) ==
  r.frame_id # "" /\ ~sameFrame(r.frame_id, ModelFrame) /\ tfClient

\* RobotModel::hasLinkModel
hasLinkModel(name) == name \in ModelLinks

\* MoveGroupCapability::performTransform of a pose in the model frame into
\* the requested output frame: the lookup is made at the pose's own stamp, so
\* between known frames it may succeed or fail; to an unknown frame it fails.
FKTransformOutcomes(target) ==
  IF target \in KnownFrames THEN BOOLEAN ELSE {FALSE}

\* Variant: unmatched links are reported before transform failures.
FKErrorCode_LinksFirst(tf_problem, matched, requested) ==
  IF matched # requested THEN INVALID_LINK_NAME
  ELSE IF tf_problem THEN FRAME_TRANSFORM_FAILURE
  ELSE SUCCESS

\* lines 227-232
FKErrorCode(tf_problem, matched, requested) ==
  IF tf_problem THEN FRAME_TRANSFORM_FAILURE
  ELSE IF matched = requested THEN SUCCESS
  ELSE INVALID_LINK_NAME

\* Variant: the empty link list is not rejected up front.
FK_Begin_NoCheck(p) ==
  /\ pc[p] = "idle"
  /\ req[p].kind = "fk"
  /\ tfUpdated' = [tfUpdated EXCEPT ![p] = TRUE]
  /\ fk' = [fk EXCEPT ![p] = [i |-> 1, do_transform |-> DoTransform(req[p]),
                              tf_problem |-> FALSE]]
  /\ pc' = [pc EXCEPT ![p] = "fk_lock"]
  /\ UNCHANGED <<world, writer, readers, req, rs, kset, res, locks, tfLog, solver, tfClient, profVars>>

\* lines 197-211: an empty link list is rejected at once; otherwise the frame
\* transforms are updated and do_transform / tf_problem initialised.
FK_Begin(p) ==
  /\ pc[p] = "idle"
  /\ req[p].kind = "fk"
  /\ IF Len(req[p].fk_link_names) = 0
     THEN /\ res' = [res EXCEPT ![p].error_code = INVALID_LINK_NAME]
          /\ pc' = [pc EXCEPT ![p] = "done"]
          /\ UNCHANGED <<tfUpdated, fk>>
     ELSE /\ tfUpdated' = [tfUpdated EXCEPT ![p] = TRUE]
          /\ fk' = [fk EXCEPT ![p] = [i |-> 1, do_transform |-> DoTransform(req[p]),
                                      tf_problem |-> FALSE]]
          /\ pc' = [pc EXCEPT ![p] = "fk_lock"]
          /\ UNCHANGED res
  /\ UNCHANGED <<world, writer, readers, req, rs, kset, locks, tfLog, solver, tfClient, profVars>>

\* lines 212-213: the read lock is taken and the current state copied.
FK_Lock(p) ==
  /\ pc[p] = "fk_lock"
  /\ CanLockRead
  /\ readers' = readers \cup {p}
  /\ locks' = [locks EXCEPT ![p] = @ + 1]
  /\ rs' = [rs EXCEPT ![p] = <<world.current>>]
  /\ pc' = [pc EXCEPT ![p] = "fk_snapshot"]
  /\ UNCHANGED <<world, writer, req, kset, res, tfUpdated, tfLog, solver, fk, tfClient, profVars>>

\* Variant: the lock object is a named local and lives on through the loop.
FK_SnapshotKeep(p) ==
  /\ pc[p] = "fk_snapshot"
  /\ rs' = [rs EXCEPT ![p] = robotStateMsgToRobotState(req[p].robot_state, @)]
  /\ pc' = [pc EXCEPT ![p] = "fk_loop"]
  /\ UNCHANGED <<world, writer, readers, req, kset, res, tfUpdated, locks, tfLog, solver, fk, tfClient, profVars>>

\* Variant: the request's state is a reference to the scene's current state
\* rather than a copy, so the merge of line 214 writes the shared state.
FK_SnapshotAlias(p) ==
  LET merged == robotStateMsgToRobotState(req[p].robot_state, rs[p])
  IN
  /\ pc[p] = "fk_snapshot"
  /\ readers' = readers \ {p}
  /\ rs' = [rs EXCEPT ![p] = merged]
  /\ world' = [world EXCEPT !.current = merged[1]]
  /\ pc' = [pc EXCEPT ![p] = "fk_loop"]
  /\ UNCHANGED <<writer, req, kset, res, tfUpdated, locks, tfLog, solver, fk, tfClient, profVars>>

\* line 213, end of the full expression, then line 214: the temporary lock
\* object dies and the request's robot state is merged into the copy.
FK_SnapshotRelease(p) ==
  /\ pc[p] = "fk_snapshot"
  /\ readers' = readers \ {p}
  /\ rs' = [rs EXCEPT ![p] = robotStateMsgToRobotState(req[p].robot_state, @)]
  /\ pc' = [pc EXCEPT ![p] = "fk_loop"]
  /\ UNCHANGED <<world, writer, req, kset, res, tfUpdated, locks, tfLog, solver, fk, tfClient, profVars>>

\* Variant: the link name is collected only when its transform succeeded.
FK_Link_NameOnTransformOnly(p) ==
  LET r == req[p]
      i == fk[p].i
      name == r.fk_link_names[i]
      pose == [link |-> name, frame_id |-> ModelFrame, cfg |-> rs[p][1]]
  IN
  /\ pc[p] = "fk_loop"
  /\ i <= Len(r.fk_link_names)
  /\ IF hasLinkModel(name)
     THEN IF fk[p].do_transform
          THEN \E ok \in FKTransformOutcomes(r.frame_id) :
                 /\ res' = [res EXCEPT
                       ![p].pose_stamped = Append(@,
                          IF ok THEN [pose EXCEPT !.frame_id = r.frame_id] ELSE pose),
                       ![p].fk_link_names = IF ok THEN Append(@, name) ELSE @]
                 /\ fk' = [fk EXCEPT ![p].i = i + 1,
                                     ![p].tf_problem = @ \/ ~ok]
          ELSE /\ res' = [res EXCEPT
                       ![p].pose_stamped = Append(@, pose),
                       ![p].fk_link_names = Append(@, name)]
               /\ fk' = [fk EXCEPT ![p].i = i + 1]
     ELSE /\ fk' = [fk EXCEPT ![p].i = i + 1]
          /\ UNCHANGED res
  /\ UNCHANGED <<world, writer, readers, pc, req, rs, kset, tfUpdated, locks, tfLog, solver, tfClient, profVars>>

\* Variant: a failed transform into the output frame is not remembered.
FK_Link_ForgetTransformFailure(p) ==
  LET r == req[p]
      i == fk[p].i
      name == r.fk_link_names[i]
      pose == [link |-> name, frame_id |-> ModelFrame, cfg |-> rs[p][1]]
  IN
  /\ pc[p] = "fk_loop"
  /\ i <= Len(r.fk_link_names)
  /\ IF hasLinkModel(name)
     THEN /\ \E ok \in (IF fk[p].do_transform
                        THEN FKTransformOutcomes(r.frame_id) ELSE {FALSE}) :
               res' = [res EXCEPT
                  ![p].pose_stamped = Append(@,
                     IF ok THEN [pose EXCEPT !.frame_id = r.frame_id] ELSE pose),
                  ![p].fk_link_names = Append(@, name)]
          /\ fk' = [fk EXCEPT ![p].i = i + 1]
     ELSE /\ fk' = [fk EXCEPT ![p].i = i + 1]
          /\ UNCHANGED res
  /\ UNCHANGED <<world, writer, readers, pc, req, rs, kset, tfUpdated, locks, tfLog, solver, tfClient, profVars>>

\* lines 215-226, one iteration of the loop over the requested link names.
FK_Link(p) ==
  LET r == req[p]
      i == fk[p].i
      name == r.fk_link_names[i]
      pose == [link |-> name, frame_id |-> ModelFrame, cfg |-> rs[p][1]]
  IN
  /\ pc[p] = "fk_loop"
  /\ i <= Len(r.fk_link_names)
  /\ IF hasLinkModel(name)
     THEN IF fk[p].do_transform
          THEN \E ok \in FKTransformOutcomes(r.frame_id) :
                 /\ res' = [res EXCEPT
                       ![p].pose_stamped = Append(@,
                          IF ok THEN [pose EXCEPT !.frame_id = r.frame_id] ELSE pose),
                       ![p].fk_link_names = Append(@, name)]
                 /\ fk' = [fk EXCEPT ![p].i = i + 1,
                                     ![p].tf_problem = @ \/ ~ok]
          ELSE /\ res' = [res EXCEPT
                       ![p].pose_stamped = Append(@, pose),
                       ![p].fk_link_names = Append(@, name)]
               /\ fk' = [fk EXCEPT ![p].i = i + 1]
     ELSE /\ fk' = [fk EXCEPT ![p].i = i + 1]
          /\ UNCHANGED res
  /\ UNCHANGED <<world, writer, readers, pc, req, rs, kset, tfUpdated, locks, tfLog, solver, tfClient, profVars>>

\* lines 227-233: the error code is chosen and the handler returns.
FK_Return(p) ==
  /\ pc[p] = "fk_loop"
  /\ fk[p].i > Len(req[p].fk_link_names)
  /\ res' = [res EXCEPT ![p].error_code =
                FKErrorCode(fk[p].tf_problem, Len(res[p].fk_link_names),
                            Len(req[p].fk_link_names))]
  /\ pc' = [pc EXCEPT ![p] = "done"]
  /\ UNCHANGED <<world, writer, readers, req, rs, kset, tfUpdated, locks, tfLog, solver, fk, tfClient, profVars>>

\* ------------------------------------------------------------- the profiler
\* moveit::tools::Profiler.  Threads (Procs) call its public operations; each
\* call locks lock_, runs its body, unlocks lock_ and returns.
MaxOps == 3
MaxTimes == 2
MaxTime == 2

Names == {"ik", "fk"}

\* TimeInfo(): no time counted, no interval started
TimeInfo == [start |-> 0, total |-> 0, parts |-> 0]
\* TimeInfo::set: an interval starts now
set(ti) == [ti EXCEPT !.start = now]
\* TimeInfo::update: the interval started by set ends now
update(ti) == [ti EXCEPT !.total = @ + (now - ti.start), !.parts = @ + 1]

AvgInfo == [total |-> 0, totalSqr |-> 0, parts |-> 0]

\* PerThread(): a name absent from a map reads as the map's default value
PerThread ==
  [events |-> [n \in Names |-> 0],
   avg |-> [n \in Names |-> AvgInfo],
   time |-> [n \in Names |-> TimeInfo]]

\* std::map::operator[] on data_: the thread's entry, created when absent
Entry(d, t) == IF t \in DOMAIN d THEN d[t] ELSE PerThread
Put(d, t, e) == [u \in (DOMAIN d) \cup {t} |-> IF u = t THEN e ELSE d[u]]

\* A thread's position in a call.  stage tells the two locked sections of
\* status apart (1: inside its call of stop, 2: its own); calls counts the
\* calls the thread has made.
NoCall(k) ==
  [pc |-> "idle", op |-> "none", name |-> "", times |-> 0, merge |-> FALSE,
   stage |-> 0, calls |-> k]

CallArgs ==
  [op : {"start", "stop", "clear"}, name : {""}, times : {0}, merge : {FALSE}]
  \cup [op : {"event", "average"}, name : Names, times : 1..MaxTimes, merge : {FALSE}]
  \cup [op : {"begin", "end"}, name : Names, times : {0}, merge : {FALSE}]
  \cup [op : {"status"}, name : {""}, times : {0}, merge : BOOLEAN]

CallsMade == prof[1].calls + prof[2].calls

\* the clock advances
Tick ==
  /\ now < MaxTime
  /\ now' = now + 1
  /\ UNCHANGED <<lock_, running_, tinfo_, data_, prof, report, submitted, kinVars>>

\* a thread enters one of the public operations
Call(t) ==
  /\ prof[t].pc = "idle"
  /\ CallsMade < MaxOps
  /\ \E a \in CallArgs :
       prof' = [prof EXCEPT ![t] =
                  [pc |-> "lock", op |-> a.op, name |-> a.name, times |-> a.times,
                   merge |-> a.merge, stage |-> IF a.op = "status" THEN 1 ELSE 2,
                   calls |-> prof[t].calls + 1]]
  /\ UNCHANGED <<lock_, running_, tinfo_, data_, now, report, submitted, kinVars>>

\* Variant: the operation runs its body without taking the mutex.
lock_NoMutex(t) ==
  /\ prof[t].pc = "lock"
  /\ prof' = [prof EXCEPT ![t].pc = "body"]
  /\ UNCHANGED <<lock_, running_, tinfo_, data_, now, report, submitted, kinVars>>

\* lock_.lock(), first statement of every operation (lines 58, 69, 80, 90, 97,
\* 107, 114, 130): waits until the mutex is free
lock(t) ==
  /\ prof[t].pc = "lock"
  /\ lock_ = 0
  /\ lock_' = t
  /\ prof' = [prof EXCEPT ![t].pc = "body"]
  /\ UNCHANGED <<running_, tinfo_, data_, now, report, submitted, kinVars>>

InBody(t, op, stage) ==
  prof[t].pc = "body" /\ prof[t].op = op /\ prof[t].stage = stage

\* another thread is inside a locked section at the same time
Raced(t) == \E u \in Procs \ {t} : prof[u].pc \in {"body", "unlock"}

\* A write into data_.  Two threads writing the std::map at once is a data
\* race: the entry may be written or the write may be lost.
Store(t, e) ==
  data_' \in (IF Raced(t) THEN {Put(data_, t, e), data_} ELSE {Put(data_, t, e)})

Done(t) == prof' = [prof EXCEPT ![t].pc = "unlock"]

\* Variant: start restarts the total-time interval even when running.
start_Restart(t) ==
  /\ InBody(t, "start", 2)
  /\ tinfo_' = set(tinfo_)
  /\ running_' = TRUE
  /\ Done(t)
  /\ UNCHANGED <<lock_, data_, now, report, submitted, kinVars>>

\* lines 59-63
start(t) ==
  /\ InBody(t, "start", 2)
  /\ IF ~running_
     THEN tinfo_' = set(tinfo_) /\ running_' = TRUE
     ELSE UNCHANGED <<tinfo_, running_>>
  /\ Done(t)
  /\ UNCHANGED <<lock_, data_, now, report, submitted, kinVars>>

\* lines 70-74; also the call of stop() at line 129
stop(t) ==
  /\ InBody(t, "stop", 2) \/ InBody(t, "status", 1)
  /\ IF running_
     THEN tinfo_' = update(tinfo_) /\ running_' = FALSE
     ELSE UNCHANGED <<tinfo_, running_>>
  /\ Done(t)
  /\ UNCHANGED <<lock_, data_, now, report, submitted, kinVars>>

\* lines 81-84
clear(t) ==
  /\ InBody(t, "clear", 2)
  /\ data_' = <<>>
  /\ tinfo_' = IF running_ THEN set(TimeInfo) ELSE TimeInfo
  /\ Done(t)
  /\ UNCHANGED <<lock_, running_, now, report, submitted, kinVars>>

\* line 91
event(t) ==
  /\ InBody(t, "event", 2)
  /\ Store(t, [Entry(data_, t) EXCEPT !.events[prof[t].name] = @ + prof[t].times])
  /\ Done(t)
  /\ UNCHANGED <<lock_, running_, tinfo_, now, report, submitted, kinVars>>

\* lines 98-101
average(t) ==
  /\ InBody(t, "average", 2)
  /\ Store(t, [Entry(data_, t) EXCEPT !.avg[prof[t].name] =
                 [total |-> @.total + prof[t].times,
                  totalSqr |-> @.totalSqr + prof[t].times * prof[t].times,
                  parts |-> @.parts + 1]])
  /\ Done(t)
  /\ UNCHANGED <<lock_, running_, tinfo_, now, report, submitted, kinVars>>

\* line 108
begin(t) ==
  /\ InBody(t, "begin", 2)
  /\ Store(t, [Entry(data_, t) EXCEPT !.time[prof[t].name] = set(@)])
  /\ Done(t)
  /\ UNCHANGED <<lock_, running_, tinfo_, now, report, submitted, kinVars>>

\* line 115
end(t) ==
  /\ InBody(t, "end", 2)
  /\ Store(t, [Entry(data_, t) EXCEPT !.time[prof[t].name] = update(@)])
  /\ Done(t)
  /\ UNCHANGED <<lock_, running_, tinfo_, now, report, submitted, kinVars>>

\* the thread ids of a set in the order of the std::map's iteration
RECURSIVE InOrder(_)
InOrder(S) ==
  IF S = {} THEN <<>>
  ELSE LET m == CHOOSE x \in S : \A y \in S : x <= y
       IN  <<m>> \o InOrder(S \ {m})

RECURSIVE SumSeq(_)
SumSeq(s) == IF s = <<>> THEN 0 ELSE s[1] + SumSeq(Tail(s))

\* lines 138-158: the per-thread data added up into one PerThread
Combined(d) ==
  LET ids == InOrder(DOMAIN d)
      over(f(_)) == SumSeq([k \in 1..Len(ids) |-> f(d[ids[k]])])
  IN  [events |-> [n \in Names |-> LET ev(e) == e.events[n] IN over(ev)],
       avg |-> [n \in Names |->
                  [total |-> LET g(e) == e.avg[n].total IN over(g),
                   totalSqr |-> LET g(e) == e.avg[n].totalSqr IN over(g),
                   parts |-> LET g(e) == e.avg[n].parts IN over(g)]],
       time |-> [n \in Names |->
                  [start |-> 0,
                   total |-> LET g(e) == e.time[n].total IN over(g),
                   parts |-> LET g(e) == e.time[n].parts IN over(g)]]]

\* lines 131-168, after the call of stop(): what is printed, as the total
\* time and the list of PerThread blocks handed to printThreadInfo
status(t) ==
  /\ InBody(t, "status", 2)
  /\ report' = <<[total |-> tinfo_.total,
                  merge |-> prof[t].merge,
                  threads |-> IF prof[t].merge THEN <<Combined(data_)>>
                              ELSE LET ids == InOrder(DOMAIN data_)
                                   IN  [k \in 1..Len(ids) |-> data_[ids[k]]]]>>
  /\ Done(t)
  /\ UNCHANGED <<lock_, running_, tinfo_, data_, now, submitted, kinVars>>

\* lock_.unlock(), last statement of every operation (lines 64, 75, 85, 92,
\* 102, 109, 116, 168), and the return.  status goes on after its call of
\* stop().  submitted keeps the counts handed to event since the last clear.
unlock(t) ==
  /\ prof[t].pc = "unlock"
  /\ lock_' = 0
  /\ IF prof[t].op = "status" /\ prof[t].stage = 1
     THEN /\ prof' = [prof EXCEPT ![t].pc = "lock", ![t].stage = 2]
          /\ UNCHANGED submitted
     ELSE /\ prof' = [prof EXCEPT ![t] = NoCall(prof[t].calls)]
          /\ submitted' =
               IF prof[t].op = "event"
               THEN [submitted EXCEPT ![prof[t].name] = @ + prof[t].times]
               ELSE IF prof[t].op = "clear" THEN [n \in Names |-> 0]
               ELSE submitted
  /\ UNCHANGED <<running_, tinfo_, data_, now, report, kinVars>>

\* ---------------------------------------------------------- specifications
\* The profiler as constructed by instance(): Profiler(false, false), no
\* thread calling it.
ProfilerIdle ==
  /\ lock_ = 0
  /\ running_ = FALSE
  /\ tinfo_ = TimeInfo
  /\ data_ = <<>>
  /\ now = 0
  /\ prof = [t \in Procs |-> NoCall(0)]
  /\ report = <<>>
  /\ submitted = [n \in Names |-> 0]

InitWith(requests) ==
  /\ world \in [current : Cfgs, obstacle : Cfgs]
  /\ writer = FALSE
  /\ readers = {}
  /\ req \in requests
  /\ pc = [p \in Procs |-> IF req[p].kind = "none" THEN "done" ELSE "idle"]
  /\ rs = [p \in Procs |-> <<>>]
  /\ kset = [p \in Procs |-> <<>>]
  /\ res = [p \in Procs |-> NoResponse]
  /\ tfUpdated = [p \in Procs |-> FALSE]
  /\ locks = [p \in Procs |-> 0]
  /\ tfLog = [p \in Procs |-> <<>>]
  /\ solver = [p \in Procs |-> NoSolver]
  /\ fk = [p \in Procs |-> NoFK]
  /\ tfClient \in BOOLEAN
  /\ ProfilerIdle

\* One service thread handles one request, of any shape, beside the writer.
Init ==
  InitWith({[p \in Procs |-> IF p = 1 THEN r ELSE NoRequest] :
              r \in IKRequests \cup FKRequests})

\* Two service threads handle one request each, beside the writer.
InitMT ==
  InitWith([Procs -> PlainIKRequests \cup PlainFKRequests])

Next ==
  \/ WriterLock
  \/ WriterUpdate
  \/ WriterUnlock
  \/ \E p \in Procs : IK_Begin(p)
  \/ \E p \in Procs : IK_Lock(p)
  \/ \E p \in Procs : IK_SnapshotRelease(p)
  \/ \E p \in Procs : ComputeIK(p)
  \/ \E p \in Procs : SolverIterate(p)
  \/ \E p \in Procs : SolverGiveUp(p)
  \/ \E p \in Procs : ComputeIKResult(p)
  \/ \E p \in Procs : IK_Return(p)
  \/ \E p \in Procs : FK_Begin(p)
  \/ \E p \in Procs : FK_Lock(p)
  \/ \E p \in Procs : FK_SnapshotRelease(p)
  \/ \E p \in Procs : FK_Link(p)
  \/ \E p \in Procs : FK_Return(p)

Spec == Init /\ [][Next]_vars

SpecMT == InitMT /\ [][Next]_vars

\* The profiler on its own: no request is being handled.
InitProf ==
  /\ InitWith({[p \in Procs |-> NoRequest]})
  /\ world = [current |-> 0, obstacle |-> 0]
  /\ tfClient

NextProf ==
  \/ Tick
  \/ \E t \in Procs : Call(t)
  \/ \E t \in Procs : lock(t)
  \/ \E t \in Procs : start(t)
  \/ \E t \in Procs : stop(t)
  \/ \E t \in Procs : clear(t)
  \/ \E t \in Procs : event(t)
  \/ \E t \in Procs : average(t)
  \/ \E t \in Procs : begin(t)
  \/ \E t \in Procs : end(t)
  \/ \E t \in Procs : status(t)
  \/ \E t \in Procs : unlock(t)

SpecProf == InitProf /\ [][NextProf]_vars

\* Scheduling: a service thread that can take its next step takes it; a
\* thread waiting for the read lock gets it when the lock keeps becoming free
\* (the writer may come back in between); a solver call returns; a writer
\* releases the scene.
HandlerStep(p) ==
  \/ IK_Begin(p) \/ IK_SnapshotRelease(p) \/ ComputeIK(p)
  \/ ComputeIKResult(p) \/ IK_Return(p)
  \/ FK_Begin(p) \/ FK_SnapshotRelease(p) \/ FK_Link(p) \/ FK_Return(p)

Fairness ==
  /\ WF_vars(WriterUnlock)
  /\ \A p \in Procs :
       /\ WF_vars(HandlerStep(p))
       /\ SF_vars(IK_Lock(p) \/ FK_Lock(p))
       /\ WF_vars(SolverIterate(p) \/ SolverGiveUp(p))

SpecFair == Init /\ [][Next]_vars /\ Fairness

\* ---------------------------------------------------------------- typing
TypeOK ==
  /\ world \in [current : Cfgs, obstacle : Cfgs]
  /\ writer \in BOOLEAN
  /\ readers \subseteq Procs
  /\ \A p \in Procs :
       /\ pc[p] \in {"idle", "ik_lock", "ik_snapshot", "ik_compute", "ik_solve",
                     "ik_solved", "ik_return", "fk_lock", "fk_snapshot",
                     "fk_loop", "done"}
       /\ res[p].error_code \in ErrorCodes \cup {UNSET}
       /\ locks[p] \in 0..1
       /\ solver[p].iters \in 0..MaxIter

\* ------------------------------------------------- vocabulary of the claims
IsIK(p) == req[p].kind = "ik"
IsFK(p) == req[p].kind = "fk"
Returned(p) == pc[p] = "done"
\* computeIK has run up to an error code or into the solver
PastComputeIK(p) == pc[p] \in {"ik_solve", "ik_solved", "ik_return", "done"}
InComputeIK(p) == pc[p] \in {"ik_compute", "ik_solve", "ik_solved", "ik_return"}
InSolve(p) == pc[p] = "ik_solve"
UnknownGroup(p) == IsIK(p) /\ req[p].group_name \notin ModelGroups
KnownGroup(p) == IsIK(p) /\ req[p].group_name \in ModelGroups
Unconstrained(p) ==
  IsIK(p) /\ ~req[p].avoid_collisions /\ Len(req[p].constraints) = 0
Constrained(p) ==
  IsIK(p) /\ (req[p].avoid_collisions \/ Len(req[p].constraints) > 0)
NPoses(p) == Len(req[p].pose_stamped_vector)
MismatchedCounts(p) ==
  KnownGroup(p) /\ NPoses(p) >= 2 /\ NPoses(p) # Len(req[p].ik_link_names)
Untransformable(pose) == pose.frame_id \notin {"", ModelFrame} \cup KnownFrames

\* ------------------------------------------------------------------ claims

C2_SnapshotReleasedBeforeSolve ==
  \A p \in Procs :
    (Unconstrained(p) /\ (InComputeIK(p) \/ Returned(p))) =>
      /\ p \notin readers
      /\ locks[p] = 1
      /\ ~solver[p].callback.bound

\* the solver has been entered with the copied state, and a writer holds the
\* write lock and has already changed the scene's current state
C2_Witness ==
  \E p \in Procs :
    /\ Unconstrained(p) /\ InSolve(p) /\ solver[p].calls = 1
    /\ req[p].robot_state = <<>> /\ solver[p].iters = 0
    /\ writer
    /\ world.current # rs[p][1]

\* C3: with avoid_collisions=true or a non-empty constraint list, the read lock
\* is held from before computeIK until the handler returns; while the request
\* is between solver start and solver return no writer holds the scene, and
\* all evaluations of the validity predicate in one solve read one scene state.
C3_LockHeldThroughSolve ==
  \A p \in Procs :
    Constrained(p) =>
      /\ (InComputeIK(p) => (p \in readers /\ ~writer /\ locks[p] = 1))
      /\ Cardinality(solver[p].seen) <= 1
      /\ (Returned(p) => p \notin readers)

C3_Witness ==
  \E p \in Procs :
    /\ Constrained(p) /\ InSolve(p)
    /\ solver[p].iters = 2
    /\ solver[p].seen = {world}

\* C4: with avoid_collisions=true, every candidate of the solver goes through
\* the validity predicate with the collision test bound, and a state the
\* collision check reports colliding is never the solution answered with
\* Success.
C4_NoCollidingSuccess ==
  \A p \in Procs :
    (IsIK(p) /\ req[p].avoid_collisions) =>
      /\ (solver[p].iters > 0 =>
            /\ solver[p].last # <<>>
            /\ solver[p].last[1].tests # <<>>
            /\ solver[p].last[1].tests[1] = "collision"
            /\ (InComputeIK(p) => solver[p].last[1].state = rs[p]))
      /\ (res[p].error_code = SUCCESS =>
            /\ solver[p].last # <<>>
            /\ solver[p].last[1].valid
            /\ solver[p].last[1].state = res[p].solution
            /\ (pc[p] = "ik_return" =>
                  ~isStateColliding(world, res[p].solution[1])))

\* a first candidate was rejected, a second one accepted and answered
C4_Witness ==
  \E p \in Procs :
    /\ IsIK(p) /\ req[p].avoid_collisions /\ pc[p] = "ik_return"
    /\ res[p].error_code = SUCCESS
    /\ solver[p].iters = 2
    /\ res[p].solution # <<world.obstacle>>

\* C5: a request with a known group and two or more poses whose number differs
\* from the number of link names is answered InvalidLinkName and the solver is
\* never invoked, whether or not its poses can be transformed.
C5_CountMismatch ==
  \A p \in Procs :
    MismatchedCounts(p) =>
      /\ solver[p].calls = 0
      /\ ~InSolve(p)
      /\ (PastComputeIK(p) => res[p].error_code = INVALID_LINK_NAME)

C5_Witness ==
  \E p \in Procs :
    /\ MismatchedCounts(p) /\ Returned(p)
    /\ res[p].error_code = INVALID_LINK_NAME
    /\ Untransformable(req[p].pose_stamped_vector[1])
    /\ ~Untransformable(req[p].pose_stamped_vector[2])

\* C6 (as stated): a request rejected for mismatched pose/link counts never
\* takes the planning-scene lock.
C6_Original ==
  \A p \in Procs :
    MismatchedCounts(p) =>
      /\ locks[p] = 0
      /\ (Returned(p) => res[p].error_code = INVALID_LINK_NAME)

\* C6 (amended): a request rejected for mismatched pose/link counts is
\* rejected before any pose is transformed, but after the read lock has been
\* acquired (once) to copy the current state; the lock is released when the
\* handler returns.
C6_CountMismatchAfterLock ==
  \A p \in Procs :
    MismatchedCounts(p) =>
      /\ tfLog[p] = <<>>
      /\ (res[p].error_code # UNSET =>
            /\ res[p].error_code = INVALID_LINK_NAME
            /\ locks[p] = 1
            /\ rs[p] # <<>>)
      /\ (Returned(p) => p \notin readers)

\* rejected while the read lock is still held
C6_Witness ==
  \E p \in Procs :
    /\ MismatchedCounts(p) /\ pc[p] = "ik_return"
    /\ res[p].error_code = INVALID_LINK_NAME
    /\ p \in readers

C7_Target(p) ==
  IF NPoses(p) = 0 THEN req[p].pose_stamped ELSE req[p].pose_stamped_vector[1]

C7_Pre(p) ==
  /\ KnownGroup(p)
  /\ IF NPoses(p) <= 1 THEN Untransformable(C7_Target(p))
     ELSE /\ NPoses(p) = Len(req[p].ik_link_names)
          /\ \E k \in 1..NPoses(p) : Untransformable(req[p].pose_stamped_vector[k])

C7_FirstBad(p) ==
  CHOOSE k \in 1..NPoses(p) :
    /\ Untransformable(req[p].pose_stamped_vector[k])
    /\ \A j \in 1..(k - 1) : ~Untransformable(req[p].pose_stamped_vector[j])

\* C7: a request with a known group (and matching counts, when multi-pose) one
\* of whose target poses cannot be transformed into the model frame is answered
\* FrameTransformFailure and the solver is never invoked; a multi-pose request
\* transforms its poses in index order up to the first failing one and no
\* further.
C7_TransformFailure ==
  \A p \in Procs :
    C7_Pre(p) =>
      /\ solver[p].calls = 0
      /\ ~InSolve(p)
      /\ (PastComputeIK(p) =>
            /\ res[p].error_code = FRAME_TRANSFORM_FAILURE
            /\ res[p].solution = <<>>
            /\ IF NPoses(p) <= 1
               THEN tfLog[p] = <<NPoses(p)>>
               ELSE tfLog[p] = [j \in 1..C7_FirstBad(p) |-> j])

\* the first of two poses fails: the second one is never transformed
C7_Witness ==
  \E p \in Procs :
    /\ C7_Pre(p) /\ Returned(p) /\ NPoses(p) = 2
    /\ Untransformable(req[p].pose_stamped_vector[1])
    /\ tfLog[p] = <<1>>

\* C8: an FK request with an empty link-name list is answered InvalidLinkName
\* with both response lists empty, without acquiring the lock and without
\* updating the frame transforms.
C8_EmptyLinkList ==
  \A p \in Procs :
    (IsFK(p) /\ Len(req[p].fk_link_names) = 0) =>
      /\ locks[p] = 0
      /\ p \notin readers
      /\ ~tfUpdated[p]
      /\ res[p].pose_stamped = <<>>
      /\ res[p].fk_link_names = <<>>
      /\ pc[p] \in {"idle", "done"}
      /\ (Returned(p) => res[p].error_code = INVALID_LINK_NAME)

C8_Witness ==
  \E p \in Procs :
    IsFK(p) /\ Len(req[p].fk_link_names) = 0 /\ Returned(p)

C9_WantsOutputFrame(p) == req[p].frame_id \notin {"", ModelFrame}

\* a transform into the output frame was attempted (a TF client exists) and
\* left its pose in the model frame
C9_AnyTransformFailed(p) ==
  /\ C9_WantsOutputFrame(p)
  /\ tfClient
  /\ \E k \in 1..Len(res[p].pose_stamped) :
       res[p].pose_stamped[k].frame_id # req[p].frame_id

C9_AllLinksKnown(p) ==
  \A k \in 1..Len(req[p].fk_link_names) : req[p].fk_link_names[k] \in ModelLinks

\* C9: an FK request with a non-empty link list is answered
\* FrameTransformFailure if any output-frame transform failed, else Success if
\* every requested link is a link of the model, else InvalidLinkName; the
\* entries collected (one per requested link of the model) stay in the response.
C9_FKErrorMapping ==
  \A p \in Procs :
    (IsFK(p) /\ Len(req[p].fk_link_names) > 0 /\ Returned(p)) =>
      /\ res[p].error_code =
           IF C9_AnyTransformFailed(p) THEN FRAME_TRANSFORM_FAILURE
           ELSE IF C9_AllLinksKnown(p) THEN SUCCESS
           ELSE INVALID_LINK_NAME
      /\ Len(res[p].pose_stamped) =
           Cardinality({k \in 1..Len(req[p].fk_link_names) :
                          req[p].fk_link_names[k] \in ModelLinks})

\* one pose was transformed, another was not: FrameTransformFailure, both kept
C9_Witness ==
  \E p \in Procs :
    /\ IsFK(p) /\ Returned(p)
    /\ res[p].error_code = FRAME_TRANSFORM_FAILURE
    /\ Len(res[p].pose_stamped) = 2
    /\ res[p].pose_stamped[1].frame_id = req[p].frame_id
    /\ res[p].pose_stamped[2].frame_id = ModelFrame

C10_Handled(p) ==
  IF Returned(p) THEN Len(req[p].fk_link_names)
  ELSE IF pc[p] = "fk_loop" THEN fk[p].i - 1
  ELSE 0

\* C10: the matched-link list of an FK response is the subsequence, in request
\* order, of the requested names that are links of the model, and the pose list
\* is parallel to it (same length, k-th pose of the k-th name) after every
\* loop iteration and at the end.
C10_ParallelLists ==
  \A p \in Procs :
    IsFK(p) =>
      /\ res[p].fk_link_names =
           SelectSeq(SubSeq(req[p].fk_link_names, 1, C10_Handled(p)),
                     LAMBDA n : n \in ModelLinks)
      /\ Len(res[p].pose_stamped) = Len(res[p].fk_link_names)
      /\ \A k \in 1..Len(res[p].pose_stamped) :
           res[p].pose_stamped[k].link = res[p].fk_link_names[k]

C10_Witness ==
  \E p \in Procs :
    /\ IsFK(p) /\ Returned(p)
    /\ req[p].fk_link_names = <<"gripper", "bogus_link">>
    /\ res[p].fk_link_names = <<"gripper">>
    /\ Len(res[p].pose_stamped) = 1
    /\ res[p].error_code = INVALID_LINK_NAME


\* C11: every FK request uses snapshot-and-release: the read lock is held only
\* while the current state is copied and is released when the link poses are
\* computed and transformed, so that a writer can change the scene meanwhile.
C11_FKSnapshotAndRelease ==
  \A p \in Procs :
    IsFK(p) =>
      /\ (p \in readers <=> pc[p] = "fk_snapshot")
      /\ (pc[p] = "fk_loop" => locks[p] = 1)
      /\ locks[p] <= 1
      /\ (Returned(p) /\ Len(req[p].fk_link_names) > 0 => locks[p] = 1)

\* a pose has been computed from the copy, the loop is not finished, and a
\* writer holds the write lock and has changed the scene's current state
C11_Witness ==
  \E p \in Procs :
    /\ IsFK(p) /\ pc[p] = "fk_loop"
    /\ fk[p].i = 2 /\ Len(req[p].fk_link_names) = 2
    /\ Len(res[p].pose_stamped) = 1
    /\ req[p].robot_state = <<>>
    /\ writer
    /\ world.current # rs[p][1]

C12_ReachesSolver(p) ==
  /\ KnownGroup(p)
  /\ IF NPoses(p) <= 1 THEN ~Untransformable(C7_Target(p))
     ELSE /\ NPoses(p) = Len(req[p].ik_link_names)
          /\ \A k \in 1..NPoses(p) : ~Untransformable(req[p].pose_stamped_vector[k])

\* C12: an IK request that reaches the solver (known group, consistent counts,
\* all poses transformed) is answered Success exactly when the solver reported
\* success and NoIkSolution otherwise; the solution of an IK response is
\* populated exactly when its error code is Success.
C12_SolverOutcomeMapping ==
  \A p \in Procs :
    IsIK(p) =>
      /\ (C12_ReachesSolver(p) /\ PastComputeIK(p) => solver[p].calls = 1)
      /\ (C12_ReachesSolver(p) /\ pc[p] \in {"ik_return", "done"} =>
            /\ solver[p].result \in {"found", "failed"}
            /\ (solver[p].result = "found" => res[p].error_code = SUCCESS)
            /\ (solver[p].result = "failed" => res[p].error_code = NO_IK_SOLUTION))
      /\ (res[p].solution # <<>> <=> res[p].error_code = SUCCESS)
      /\ (res[p].error_code \in {SUCCESS, NO_IK_SOLUTION} => C12_ReachesSolver(p))

\* the solver gave up after the callback had rejected every candidate
C12_Witness ==
  \E p \in Procs :
    /\ IsIK(p) /\ C12_ReachesSolver(p) /\ Returned(p)
    /\ solver[p].iters = 2 /\ solver[p].result = "failed"
    /\ res[p].error_code = NO_IK_SOLUTION
    /\ res[p].solution = <<>>


C13_WriterExcluded ==
  /\ readers # {} => ~writer
  /\ \A p \in Procs : (Constrained(p) /\ InComputeIK(p)) => p \in readers

\* a handler waiting for the read lock is held up by a writer only, never by
\* another reader
C13_ReadersShare ==
  \A p \in Procs :
    (pc[p] \in {"ik_lock", "fk_lock"} /\ ~writer) =>
      ENABLED (IK_Lock(p) \/ FK_Lock(p))

\* the write lock changes hands only in steps that move no handler
C13_HandlersNeverWrite ==
  (writer' # writer) => (pc' = pc /\ readers' = readers /\ locks' = locks)

\* C13: the IK and FK handlers take the shared read lock only, never the write
\* lock; requests holding the lock through their solves do not exclude one
\* another, and a writer is excluded while at least one of them holds it.
C13_SharedReadOnly ==
  /\ [](C13_WriterExcluded /\ C13_ReadersShare)
  /\ [][C13_HandlersNeverWrite]_vars

\* two requests are inside their solves at once, both holding the read lock
C13_Witness ==
  /\ \A p \in Procs :
       /\ Constrained(p) /\ InSolve(p) /\ solver[p].iters >= 1
       /\ p \in readers
  /\ readers = Procs
  /\ ~writer


\* request p takes a step of its handler or of its solver
C14_Stepped(p) ==
  \/ pc'[p] # pc[p]
  \/ solver'[p] # solver[p]
  \/ fk'[p] # fk[p]
  \/ res'[p] # res[p]

\* C14: each request works on its own copy of the current configuration: a
\* step of one request (merge of the input state, solver iteration, validity
\* evaluation) changes neither the world's current configuration nor another
\* request's copy, and a change of the world changes no request's copy.
C14_OwnCopy ==
  [][/\ \A p \in Procs :
          C14_Stepped(p) =>
            /\ world' = world
            /\ \A q \in Procs \ {p} : rs'[q] = rs[q]
     /\ (world' # world => rs' = rs)]_vars

\* two requests are solving at once on different configurations, one of them
\* having merged an input state, and neither copy is the world's configuration
C14_Witness ==
  /\ \A p \in Procs : IsIK(p) /\ InSolve(p) /\ solver[p].iters >= 1
  /\ rs[1] # rs[2]
  /\ req[1].robot_state # <<>>
  /\ \E p \in Procs : rs[p] # <<world.current>>


C15_ReturnedClean ==
  \A p \in Procs :
    ((IsIK(p) \/ IsFK(p)) /\ Returned(p)) =>
      /\ res[p].error_code \in ErrorCodes
      /\ p \notin readers

\* C15: every IK and FK request eventually returns, given that each solver
\* call returns and the writer eventually releases the scene, and it returns
\* with one of the five error codes set and without a lock on the scene.
C15_EventuallyReturns ==
  /\ []C15_ReturnedClean
  /\ \A p \in Procs : (IsIK(p) \/ IsFK(p)) => <>Returned(p)


\* a constrained request has returned after the solver used up its iterations;
\* its lock is gone and the writer holds the scene again
C15_Witness ==
  \E p \in Procs :
    /\ Constrained(p) /\ Returned(p)
    /\ solver[p].iters = MaxIter
    /\ res[p].error_code = NO_IK_SOLUTION
    /\ locks[p] = 1 /\ p \notin readers
    /\ writer


\* the latest evaluation of the validity predicate for request p, while the
\* request still holds the scene it was evaluated against
C16_Evaluated(p) ==
  IsIK(p) /\ InComputeIK(p) /\ solver[p].last # <<>>

\* C16: the validity predicate writes the candidate into the request's
\* configuration, then is true exactly when (no scene was supplied or the
\* configuration does not collide) and (no constraint set was supplied or the
\* set is satisfied); the collision test comes first and the constraint test
\* is skipped when the collision test fails.  The scene is supplied only with
\* avoid_collisions, the constraint set only when the built set is non-empty.
C16_ValidityPredicate ==
  \A p \in Procs :
    /\ (IsIK(p) /\ InComputeIK(p) /\ Constrained(p)) =>
         /\ solver[p].callback.bound
         /\ solver[p].callback.scene.present <=> req[p].avoid_collisions
         /\ solver[p].callback.ks.present <=> kset[p] # <<>>
         /\ solver[p].callback.ks.present => solver[p].callback.ks.set = kset[p]
    /\ C16_Evaluated(p) =>
         LET ev == solver[p].last[1]
             cand == ev.state[1]
             collOk == ~req[p].avoid_collisions \/ ~isStateColliding(world, cand)
             consOk == kset[p] = <<>> \/ Decide(kset[p], cand)
         IN  /\ rs[p] = ev.state
             /\ ev.valid <=> (collOk /\ consOk)
             /\ ev.tests =
                  (IF req[p].avoid_collisions THEN <<"collision">> ELSE <<>>)
                  \o (IF collOk /\ kset[p] # <<>> THEN <<"constraint">> ELSE <<>>)
             /\ (solver[p].result = "found" => ev.valid)

\* a candidate collides: with both a scene and a constraint set supplied, only
\* the collision test was evaluated, and the candidate would have satisfied
\* the constraints
C16_Witness ==
  \E p \in Procs :
    /\ C16_Evaluated(p) /\ InSolve(p)
    /\ req[p].avoid_collisions /\ kset[p] # <<>>
    /\ solver[p].last[1].tests = <<"collision">>
    /\ ~solver[p].last[1].valid
    /\ Decide(kset[p], solver[p].last[1].state[1])


\* the caller-specified timeout of a request, in nanoseconds
C17_RequestedBudget(p) ==
  req[p].timeout.sec * 1000000000 + req[p].timeout.nanosec

\* C17: the time budget handed to the solver equals the caller-specified
\* timeout of the request, sub-second part included.
C17_TimeoutHonoured ==
  \A p \in Procs :
    (IsIK(p) /\ solver[p].args # <<>>) =>
      solver[p].args[1].timeout = C17_RequestedBudget(p)

\* a request with timeout 0.1 s has entered the solver with a budget of 0
C17_Witness ==
  \E p \in Procs :
    /\ IsIK(p) /\ InSolve(p)
    /\ req[p].timeout = [sec |-> 0, nanosec |-> 100000000]
    /\ solver[p].args[1].timeout = 0


\* the poses of p's response that are expressed in frame f
C18_AllPosesIn(p, f) ==
  \A k \in 1..Len(res[p].pose_stamped) : res[p].pose_stamped[k].frame_id = f

\* an FK request naming an output frame other than the model frame has returned
C18_Case(p) ==
  /\ IsFK(p) /\ Returned(p)
  /\ Len(req[p].fk_link_names) > 0
  /\ req[p].frame_id \notin {"", ModelFrame}

\* The claim as stated: with an output frame named, every pose is in that
\* frame unless the response is FrameTransformFailure.
C18_Original ==
  \A p \in Procs :
    (C18_Case(p) /\ res[p].error_code # FRAME_TRANSFORM_FAILURE) =>
      C18_AllPosesIn(p, req[p].frame_id)

\* C18: when an FK request names an output frame that is non-empty and
\* different from the model frame, and a TF client is available, every pose of
\* the response is in that frame unless the response is FrameTransformFailure;
\* without a TF client no transform is attempted, the poses stay in the model
\* frame and the response is never FrameTransformFailure.
C18_OutputFrame ==
  \A p \in Procs :
    C18_Case(p) =>
      IF tfClient
      THEN res[p].error_code # FRAME_TRANSFORM_FAILURE =>
             C18_AllPosesIn(p, req[p].frame_id)
      ELSE /\ C18_AllPosesIn(p, ModelFrame)
           /\ res[p].error_code # FRAME_TRANSFORM_FAILURE

\* with a TF client, two links were transformed into the output frame
C18_Witness ==
  \E p \in Procs :
    /\ C18_Case(p) /\ tfClient
    /\ res[p].error_code = SUCCESS
    /\ Len(res[p].pose_stamped) = 2
    /\ C18_AllPosesIn(p, req[p].frame_id)


\* the single-pose call of the solver that the request is expected to make
C19_SingleCall(p, index, link) ==
  /\ solver[p].calls = 1
  /\ solver[p].args[1].kind = "single"
  /\ solver[p].args[1].target = <<index>>
  /\ solver[p].args[1].links = (IF link = "" THEN <<>> ELSE <<link>>)

\* C19: an IK request with exactly one entry in its pose list takes the
\* single-pose path: the target is that entry, the target link is the first
\* link name of the list if there is one and the default tip otherwise, the
\* scalar pose and link name are ignored, and the count check is not applied.
\* With an empty pose list the scalar pose and scalar link name are used.
C19_SinglePosePath ==
  \A p \in Procs :
    (KnownGroup(p) /\ PastComputeIK(p)) =>
      /\ (NPoses(p) = 1) =>
           /\ res[p].error_code # INVALID_LINK_NAME
           /\ tfLog[p] = <<1>>
           /\ IF Untransformable(req[p].pose_stamped_vector[1])
              THEN solver[p].calls = 0 /\ res[p].error_code = FRAME_TRANSFORM_FAILURE
              ELSE C19_SingleCall(p, 1,
                     IF Len(req[p].ik_link_names) = 0 THEN ""
                     ELSE req[p].ik_link_names[1])
      /\ (NPoses(p) = 0) =>
           /\ tfLog[p] = <<0>>
           /\ IF Untransformable(req[p].pose_stamped)
              THEN solver[p].calls = 0 /\ res[p].error_code = FRAME_TRANSFORM_FAILURE
              ELSE C19_SingleCall(p, 0, req[p].ik_link_name)

\* one pose with two link names, the scalar pose untransformable and a scalar
\* link name given: solved for the pose of the list at the first listed link
C19_Witness ==
  \E p \in Procs :
    /\ KnownGroup(p) /\ Returned(p)
    /\ NPoses(p) = 1 /\ Len(req[p].ik_link_names) = 2
    /\ req[p].ik_link_name = "wrist"
    /\ Untransformable(req[p].pose_stamped)
    /\ res[p].error_code = SUCCESS
    /\ solver[p].args[1].links = <<"gripper">>


\* the count stored for a name, added up over the threads' entries
C20_Merged(n) ==
  SumSeq([k \in 1..Len(InOrder(DOMAIN data_)) |->
            data_[InOrder(DOMAIN data_)[k]].events[n]])

\* a body runs only with the mutex held by its thread; a thread outside a
\* locked section does not hold it
C20_UnderMutex ==
  \A t \in Procs :
    (prof[t].pc \in {"body", "unlock"}) <=> (lock_ = t)

\* with no call inside a locked section, no count handed to event is lost
C20_NoLostUpdate ==
  lock_ = 0 => \A n \in Names : C20_Merged(n) = submitted[n]

\* a merged report shows, for every name, the sum of the counts handed in
C20_ReportedSum ==
  \A t \in Procs :
    (prof[t].pc = "unlock" /\ prof[t].op = "status" /\ prof[t].stage = 2
       /\ prof[t].merge) =>
      \A n \in Names : report[1].threads[1].events[n] = submitted[n]

\* while a call is in progress some thread can take a step; in particular
\* status, back from stop(), does not wait for a mutex it holds itself
C20_NoDeadlock ==
  /\ (\E t \in Procs : prof[t].pc # "idle") =>
       ENABLED (\E t \in Procs :
                  \/ lock(t) \/ start(t) \/ stop(t) \/ clear(t) \/ event(t)
                  \/ average(t) \/ begin(t) \/ end(t) \/ status(t) \/ unlock(t))
  /\ \A t \in Procs : prof[t].pc = "lock" => lock_ # t

\* C20: every public operation of the profiler runs its body under the mutex
\* and releases it before returning, so after any interleaving of event calls
\* from several threads with no clear in between the merged count of a name is
\* the sum of the counts handed in, and status, which calls stop() and then
\* locks the mutex itself, never deadlocks.
C20_ThreadSafe ==
  /\ C20_UnderMutex
  /\ C20_NoLostUpdate
  /\ C20_ReportedSum
  /\ C20_NoDeadlock

\* two threads have each counted the same name, and a merged status shows
\* the sum of their counts
C20_Witness ==
  \E t \in Procs :
    /\ prof[t].pc = "unlock" /\ prof[t].op = "status" /\ prof[t].stage = 2
    /\ prof[t].merge
    /\ DOMAIN data_ = Procs
    /\ data_[1].events["ik"] = 1 /\ data_[2].events["ik"] = 2
    /\ report[1].threads[1].events["ik"] = 3


\* thread t runs the body of operation op in this step (for status: stage 1
\* is its call of stop, stage 2 its own locked section)
C21_Runs(t, op, stage) ==
  /\ prof[t].pc = "body" /\ prof[t].op = op /\ prof[t].stage = stage
  /\ prof'[t].pc = "unlock"

C21_Starts == \E t \in Procs : C21_Runs(t, "start", 2)
C21_Stops ==
  \E t \in Procs : C21_Runs(t, "stop", 2) \/ C21_Runs(t, "status", 1)
C21_Clears == \E t \in Procs : C21_Runs(t, "clear", 2)

\* what one step does to the running flag and to the total-time interval
C21_Step ==
  /\ running_' = (IF C21_Starts THEN TRUE
                  ELSE IF C21_Stops THEN FALSE
                  ELSE running_)
  /\ (C21_Starts /\ running_) => tinfo_' = tinfo_
  /\ (C21_Starts /\ ~running_) => tinfo_' = [tinfo_ EXCEPT !.start = now]
  /\ (C21_Stops /\ ~running_) => tinfo_' = tinfo_
  /\ (C21_Stops /\ running_) =>
        /\ tinfo_'.total = tinfo_.total + (now - tinfo_.start)
        /\ tinfo_'.start = tinfo_.start
  /\ C21_Clears =>
        /\ data_' = <<>>
        /\ tinfo_'.total = 0
        /\ running_ => tinfo_'.start = now
  /\ ~(C21_Starts \/ C21_Stops \/ C21_Clears) => tinfo_' = tinfo_

\* the time counted never exceeds the time elapsed, and while the profiler
\* runs the interval in progress began no later than now
C21_NoDoubleCount ==
  /\ tinfo_.total <= now
  /\ running_ => tinfo_.total + (now - tinfo_.start) <= now

\* C21: the running flag is a two-state machine: start on a running profiler
\* and stop on a stopped one change nothing; the profiler runs exactly when
\* the last of start / stop / status to act on the flag was start; clear
\* empties the per-thread data and resets the total time, leaves the flag as
\* it is and restarts the interval when the profiler is running.
C21_RunningFlag ==
  /\ []C21_NoDoubleCount
  /\ [][C21_Step]_vars

\* clear has just run, still holding the mutex, on a running profiler that
\* had counted an event: the data is gone, the flag is still set and the
\* total-time interval begins anew at the present time
C21_Witness ==
  \E t \in Procs :
    /\ prof[t].pc = "unlock" /\ prof[t].op = "clear" /\ lock_ = t
    /\ submitted["ik"] > 0
    /\ data_ = <<>>
    /\ running_
    /\ now > 0 /\ tinfo_ = [start |-> now, total |-> 0, parts |-> 0]

====
